---- MODULE Spec2Model ----
(***************************************************************************)
(* Model of the manual bus stop logger ge_stadedegeneve-bernex_p+r_40.py.  *)
(*                                                                         *)
(* The script is one sequential process: a loop that blocks in input() for *)
(* each stop of bus_stops, stores datetime.now() in actual_times, prints   *)
(* the tail view, and after the loop writes bus_trip_log.csv.              *)
(*                                                                         *)
(* Time is counted in ticks since midnight of the day the run starts;      *)
(* there are TicksPerSec ticks in a second, so that a reading of the clock *)
(* carries a fraction of a second, as datetime.now() does, and int() of a  *)
(* difference truncates it.  A printed line is modelled by its fields,     *)
(* before the padding of the f-string; a CSV row by the strings that       *)
(* csv.writer writes for its fields.                                       *)
(***************************************************************************)
EXTENDS Integers, Sequences, FiniteSets, TLC

VARIABLES pc, idx, actual_times, tail_views, csv_file

vars == <<pc, idx, actual_times, tail_views, csv_file>>

\* ------------------------------------------------------------- bounds

\* The schedule of the model is the first NumStops stops of bus_stops.
NumStops == 3

\* Resolution of the clock: ticks in one second.
TicksPerSec == 2

\* Calls of print_tail_view / the export block applied to one record in FnSpec.
MaxRenders == 2

\* -------------------------------------------------------- constants

RED == "\\033[91m"

GREEN == "\\033[92m"

YELLOW == "\\033[93m"

RESET == "\\033[0m"

\* Python's None (a missing key of dict.get, prev_actual before the first
\* logged stop): a value that is no reading of the clock, which are all >= 0.
None == 0 - 1

\* The file bus_trip_log.csv before this run has written it.
NoFile == <<>>

\* The stops of the source, "time" as <<HH, MM>> (names in ASCII).
AllStops ==
    << [sequence |-> 1,  time |-> <<9, 43>>, stop |-> "Grand-Lancy, Stade de Geneve"],
       [sequence |-> 2,  time |-> <<9, 45>>, stop |-> "Lancy-Pont-Rouge, gare/Etoile"],
       [sequence |-> 3,  time |-> <<9, 47>>, stop |-> "Lancy-Pont-Rouge, gare"],
       [sequence |-> 4,  time |-> <<9, 49>>, stop |-> "Petit-Lancy, place"],
       [sequence |-> 5,  time |-> <<9, 51>>, stop |-> "Les Esserts"],
       [sequence |-> 6,  time |-> <<9, 52>>, stop |-> "Onex, Bandol"],
       [sequence |-> 7,  time |-> <<9, 54>>, stop |-> "Salle communale"],
       [sequence |-> 8,  time |-> <<9, 55>>, stop |-> "Conegnon, La Dode"],
       [sequence |-> 9,  time |-> <<9, 56>>, stop |-> "croisee"],
       [sequence |-> 10, time |-> <<9, 58>>, stop |-> "Bernex, P+R"] >>

bus_stops == SubSeq(AllStops, 1, NumStops)

\* strptime(hh_mm, "%H:%M").replace(today's date): ticks since today's midnight
target_time(s) == (s.time[1] * 60 + s.time[2]) * 60 * TicksPerSec

\* Readings datetime.now() may return, as offsets from the first stop's
\* scheduled time: 90.5 s and half a second early, on time, half a second,
\* 90 s and 240 s late.  The wall clock is not monotonic.
ClockOffsets ==
    { -(90 * TicksPerSec) - 1, -1, 0, 1, 90 * TicksPerSec, 240 * TicksPerSec }

Clock == { target_time(bus_stops[1]) + d : d \in ClockOffsets }

\* ---------------------------------------------------------- formatting

Digit(d) ==
    CASE d = 0 -> "0" [] d = 1 -> "1" [] d = 2 -> "2" [] d = 3 -> "3"
      [] d = 4 -> "4" [] d = 5 -> "5" [] d = 6 -> "6" [] d = 7 -> "7"
      [] d = 8 -> "8" [] d = 9 -> "9"

RECURSIVE NatStr(_)
NatStr(n) == IF n < 10 THEN Digit(n) ELSE NatStr(n \div 10) \o Digit(n % 10)

\* str() of an int, as an f-string field or a csv field
IntStr(n) == IF n < 0 THEN "-" \o NatStr(-n) ELSE NatStr(n)

\* a two-digit strftime field
Pad2(n) == IF n < 10 THEN "0" \o NatStr(n) ELSE NatStr(n)

\* int(): truncation toward zero of ticks / TicksPerSec
IntSeconds(ticks) ==
    IF ticks >= 0 THEN ticks \div TicksPerSec ELSE -((-ticks) \div TicksPerSec)

\* strftime("%H:%M")
StrfHM(t) ==
    LET secs == t \div TicksPerSec
    IN  Pad2(secs \div 3600) \o ":" \o Pad2((secs % 3600) \div 60)

\* strftime("%H:%M:%S"): the fraction of a second is dropped
StrfHMS(t) ==
    LET secs == t \div TicksPerSec
    IN  StrfHM(t) \o ":" \o Pad2(secs % 60)

\* strftime("%Y-%m-%d %H:%M:%S"); every reading of Clock is on the day the
\* run starts, whose date is written YYYY-MM-DD.
StrfDateHMS(t) == "YYYY-MM-DD " \o StrfHMS(t)

\* actual_times.get(seq)
Get(at, seq) == IF seq \in DOMAIN at THEN at[seq] ELSE None

\* ------------------------------------------------------------ deviation

\* format_deviation with the sign of a zero deviation taken as "-"
format_deviation_strict(actual_dt, target_dt) ==
    LET total_seconds == IntSeconds(actual_dt - target_dt)
        sec_abs == IF total_seconds >= 0 THEN total_seconds ELSE -total_seconds
    IN  [sign |-> IF total_seconds > 0 THEN "+" ELSE "-",
         minutes |-> sec_abs \div 60,
         seconds |-> sec_abs % 60,
         total_seconds |-> total_seconds]

\* format_deviation without abs(): minutes and seconds of the signed total
format_deviation_noabs(actual_dt, target_dt) ==
    LET total_seconds == IntSeconds(actual_dt - target_dt)
    IN  [sign |-> IF total_seconds >= 0 THEN "+" ELSE "-",
         minutes |-> total_seconds \div 60,
         seconds |-> total_seconds % 60,
         total_seconds |-> total_seconds]

format_deviation(actual_dt, target_dt) ==
    LET total_seconds == IntSeconds(actual_dt - target_dt)
        sign == IF total_seconds >= 0 THEN "+" ELSE "-"
        sec_abs == IF total_seconds >= 0 THEN total_seconds ELSE -total_seconds
    IN  [sign |-> sign,
         minutes |-> sec_abs \div 60,
         seconds |-> sec_abs % 60,
         total_seconds |-> total_seconds]

color_for_deviation(total_seconds) ==
    IF total_seconds > 0 THEN RED
    ELSE IF total_seconds < 0 THEN GREEN
    ELSE YELLOW

\* f"{sign}{m}m {sec}s"
DeviationStr(d) ==
    d.sign \o IntStr(d.minutes) \o "m " \o IntStr(d.seconds) \o "s"

\* f"{tm}m {ts}s" of int((actual_dt - prev_actual).total_seconds()); // and %
\* are Python's floor division and non-negative remainder.
TravelStr(actual_dt, prev_actual) ==
    LET travel_sec == IntSeconds(actual_dt - prev_actual)
    IN  IntStr(travel_sec \div 60) \o "m " \o IntStr(travel_sec % 60) \o "s"

\* ------------------------------------------------------------ tail view

\* One printed line of the tail view, by its fields.
TailRow(s, at, prev_actual) ==
    LET actual_dt == Get(at, s.sequence)
        d == format_deviation(actual_dt, target_time(s))
    IN  [seq |-> s.sequence,
         name |-> s.stop,
         target_str |-> StrfHM(target_time(s)),
         actual_str |-> IF actual_dt # None THEN StrfHMS(actual_dt) ELSE "-",
         deviation_colored |->
             IF actual_dt # None
             THEN color_for_deviation(d.total_seconds) \o DeviationStr(d) \o RESET
             ELSE "-",
         travel_str |->
             IF actual_dt # None /\ prev_actual # None
             THEN TravelStr(actual_dt, prev_actual)
             ELSE "-"]

\* print_tail_view's loop with "prev_actual = actual_dt" done for every stop,
\* logged or not.
RECURSIVE TailRowsFrom_unguarded(_, _, _)
TailRowsFrom_unguarded(i, at, prev_actual) ==
    IF i > Len(bus_stops) THEN <<>>
    ELSE LET s == bus_stops[i]
         IN  <<TailRow(s, at, prev_actual)>>
             \o TailRowsFrom_unguarded(i + 1, at, Get(at, s.sequence))

\* The loop of print_tail_view from stop i on, prev_actual as the loop holds it.
RECURSIVE TailRowsFrom(_, _, _)
TailRowsFrom(i, at, prev_actual) ==
    IF i > Len(bus_stops) THEN <<>>
    ELSE LET s == bus_stops[i]
             actual_dt == Get(at, s.sequence)
         IN  <<TailRow(s, at, prev_actual)>>
             \o TailRowsFrom(i + 1, at,
                             IF actual_dt # None THEN actual_dt ELSE prev_actual)

\* The lines one call of print_tail_view prints: prev_actual starts as None.
TailView(at) == TailRowsFrom(1, at, None)

\* --------------------------------------------------------------- export

CsvHeader ==
    <<"Sequence", "Stop", "Target Time", "Actual Time", "Deviation (+/-)",
      "Deviation Secs", "Travel From Prev">>

\* A row of the export whose deviation is split without abs().
CsvRow_noabs(s, at, prev_actual) ==
    LET actual_dt == Get(at, s.sequence)
        d == format_deviation_noabs(actual_dt, target_time(s))
    IN  << IntStr(s.sequence),
           s.stop,
           StrfHM(target_time(s)),
           IF actual_dt # None THEN StrfDateHMS(actual_dt) ELSE "",
           IF actual_dt # None THEN DeviationStr(d) ELSE "",
           IF actual_dt # None THEN IntStr(d.total_seconds) ELSE "",
           IF actual_dt # None /\ prev_actual # None
           THEN TravelStr(actual_dt, prev_actual)
           ELSE "" >>

\* One row as csv.writer writes it: every field as its string.
CsvRow(s, at, prev_actual) ==
    LET actual_dt == Get(at, s.sequence)
        d == format_deviation(actual_dt, target_time(s))
    IN  << IntStr(s.sequence),
           s.stop,
           StrfHM(target_time(s)),
           IF actual_dt # None THEN StrfDateHMS(actual_dt) ELSE "",
           IF actual_dt # None THEN DeviationStr(d) ELSE "",
           IF actual_dt # None THEN IntStr(d.total_seconds) ELSE "",
           IF actual_dt # None /\ prev_actual # None
           THEN TravelStr(actual_dt, prev_actual)
           ELSE "" >>

\* The export loop writing a row only for the stops that were logged.
RECURSIVE CsvRowsFrom_loggedonly(_, _, _)
CsvRowsFrom_loggedonly(i, at, prev_actual) ==
    IF i > Len(bus_stops) THEN <<>>
    ELSE LET s == bus_stops[i]
             actual_dt == Get(at, s.sequence)
         IN  (IF actual_dt # None THEN <<CsvRow(s, at, prev_actual)>> ELSE <<>>)
             \o CsvRowsFrom_loggedonly(i + 1, at,
                    IF actual_dt # None THEN actual_dt ELSE prev_actual)

\* The loop of the export block from stop i on.
RECURSIVE CsvRowsFrom(_, _, _)
CsvRowsFrom(i, at, prev_actual) ==
    IF i > Len(bus_stops) THEN <<>>
    ELSE LET s == bus_stops[i]
             actual_dt == Get(at, s.sequence)
         IN  <<CsvRow(s, at, prev_actual)>>
             \o CsvRowsFrom(i + 1, at,
                            IF actual_dt # None THEN actual_dt ELSE prev_actual)

\* The file the export block writes: the header, then one row per stop.
CsvFile(at) == <<CsvHeader>> \o CsvRowsFrom(1, at, None)

\* ------------------------------------------------------------ operations

\* print_tail_view with prev_actual kept from the call before (a module-level
\* prev_actual that is not reset): the reading of the last logged stop.
print_tail_view_stale ==
    LET logged == { i \in 1..Len(bus_stops) :
                      bus_stops[i].sequence \in DOMAIN actual_times }
        last == CHOOSE i \in logged : \A j \in logged : j <= i
        kept == IF tail_views = <<>> \/ logged = {} THEN None
                ELSE actual_times[bus_stops[last].sequence]
    IN  /\ tail_views' = Append(tail_views, TailRowsFrom(1, actual_times, kept))
        /\ UNCHANGED <<actual_times, csv_file>>

\* print_tail_view(): prints the view of the current actual_times.
print_tail_view ==
    /\ tail_views' = Append(tail_views, TailView(actual_times))
    /\ UNCHANGED <<actual_times, csv_file>>

\* The with-block: opens bus_trip_log.csv with "w" and writes all rows.
export ==
    /\ csv_file' = CsvFile(actual_times)
    /\ UNCHANGED <<actual_times, tail_views>>

\* The record rebuilt with the new arrival alone: actual_times = {seq: now}
logArrival_rebuild(now) ==
    LET seq == bus_stops[idx].sequence
    IN  /\ actual_times' = [k \in {seq} |-> now]
        /\ UNCHANGED <<tail_views, csv_file>>

\* input() returns; now = datetime.now(); actual_times[seq] = now
logArrival(now) ==
    LET seq == bus_stops[idx].sequence
    IN  /\ actual_times' =
              [k \in DOMAIN actual_times \cup {seq} |->
                  IF k = seq THEN now ELSE actual_times[k]]
        /\ UNCHANGED <<tail_views, csv_file>>

\* ------------------------------------------------------------- the run

Init ==
    /\ pc = "input"
    /\ idx = 1
    /\ actual_times = <<>>
    /\ tail_views = <<>>
    /\ csv_file = NoFile

\* The user presses ENTER at the prompt of stop idx.
MainLog ==
    /\ pc = "input"
    /\ \E now \in Clock : logArrival(now)
    /\ pc' = "view"
    /\ UNCHANGED idx

\* The loop body without its call of print_tail_view.
MainView_noprint ==
    /\ pc = "view"
    /\ UNCHANGED <<actual_times, tail_views, csv_file>>
    /\ IF idx < Len(bus_stops)
       THEN idx' = idx + 1 /\ pc' = "input"
       ELSE idx' = idx /\ pc' = "export"

\* The loop stepping over every second stop.
MainView_step2 ==
    /\ pc = "view"
    /\ print_tail_view
    /\ IF idx + 1 < Len(bus_stops)
       THEN idx' = idx + 2 /\ pc' = "input"
       ELSE idx' = idx /\ pc' = "export"

\* The loop body ends with the tail view; then the next stop, or the export.
MainView ==
    /\ pc = "view"
    /\ print_tail_view
    /\ IF idx < Len(bus_stops)
       THEN idx' = idx + 1 /\ pc' = "input"
       ELSE idx' = idx /\ pc' = "export"

MainExport ==
    /\ pc = "export"
    /\ export
    /\ pc' = "done"
    /\ UNCHANGED idx

\* Ctrl-C or end of input while input() blocks: KeyboardInterrupt / EOFError
\* is raised at line 105, nothing catches it, and the process ends there.
Interrupt ==
    /\ pc = "input"
    /\ pc' = "aborted"
    /\ UNCHANGED <<idx, actual_times, tail_views, csv_file>>

Next == MainLog \/ MainView \/ MainExport \/ Interrupt

Spec == Init /\ [][Next]_vars

\* The advance trigger of the current stop eventually arrives unless the run
\* is interrupted; the steps that follow it do not block.
FairSpec ==
    Spec /\ WF_vars(MainLog) /\ WF_vars(MainView) /\ WF_vars(MainExport)

\* ------------------------------------- the view and the export as functions

Seqs == { bus_stops[i].sequence : i \in 1..Len(bus_stops) }

\* print_tail_view and the export block read the global actual_times and
\* handle any dict; here they are applied to any arrival record: any subset
\* of the stops, any readings.
FnInit ==
    /\ pc = "fn"
    /\ idx = 0
    /\ actual_times \in UNION { [D -> Clock] : D \in SUBSET Seqs }
    /\ tail_views = <<>>
    /\ csv_file = NoFile

FnRender ==
    /\ pc = "fn"
    /\ Len(tail_views) < MaxRenders
    /\ print_tail_view
    /\ UNCHANGED <<pc, idx>>

FnExport ==
    /\ pc = "fn"
    /\ export
    /\ UNCHANGED <<pc, idx>>

FnNext == FnRender \/ FnExport

FnSpec == FnInit /\ [][FnNext]_vars

\* ------------------------------------------------------------- claims

\* Indices of the logged stops, and of those logged before stop i.
Logged(at) == { i \in 1..Len(bus_stops) : bus_stops[i].sequence \in DOMAIN at }

LoggedBefore(at, i) == { j \in Logged(at) : j < i }

Greatest(S) == CHOOSE i \in S : \A j \in S : j <= i

Delta(i) == actual_times[bus_stops[i].sequence] - target_time(bus_stops[i])

Colors == {RED, GREEN, YELLOW}

\* C1: whenever the run has ended, also when it was abandoned by an
\* interrupt at a prompt, the export has been performed over exactly the
\* arrivals recorded up to that point.
C1_ExportReachedFromEveryEnd ==
    pc \in {"done", "aborted"} => csv_file = CsvFile(actual_times)

\* C2: a written export holds the header and exactly one row per stop of
\* the schedule, in sequence order, whatever subset of the stops is logged;
\* the row of a stop that is not logged has empty actual time, deviation
\* text, deviation seconds and travel fields (and a logged stop has not).
C2_OneRowPerStop ==
    csv_file # NoFile =>
        /\ Len(csv_file) = Len(bus_stops) + 1
        /\ csv_file[1] = CsvHeader
        /\ \A i \in 1..Len(bus_stops) :
              LET row == csv_file[i + 1]
              IN  /\ Len(row) = Len(CsvHeader)
                  /\ row[1] = IntStr(bus_stops[i].sequence)
                  /\ row[2] = bus_stops[i].stop
                  /\ row[3] = StrfHM(target_time(bus_stops[i]))
                  /\ IF i \in Logged(actual_times)
                     THEN row[4] # "" /\ row[5] # "" /\ row[6] # ""
                     ELSE row[4] = "" /\ row[5] = "" /\ row[6] = "" /\ row[7] = ""

C2_Witness ==
    /\ csv_file # NoFile
    /\ Logged(actual_times) # {}
    /\ Logged(actual_times) # 1..Len(bus_stops)
    /\ 1 \notin Logged(actual_times)

\* C3: a step never removes an arrival nor changes its reading; the record
\* changes only by the logArrival step of the stop at the prompt, which adds
\* that stop, not logged before, and nothing else; the view and the export
\* leave the record as it is.
C3_ArrivalsOnlyGrow ==
    [][ /\ \A k \in DOMAIN actual_times :
              k \in DOMAIN actual_times' /\ actual_times'[k] = actual_times[k]
        /\ actual_times' # actual_times =>
              /\ pc = "input"
              /\ bus_stops[idx].sequence \notin DOMAIN actual_times
              /\ DOMAIN actual_times' =
                    DOMAIN actual_times \cup {bus_stops[idx].sequence}
        /\ pc \in {"view", "export"} => actual_times' = actual_times ]_vars

C3_Witness ==
    /\ pc = "done"
    /\ csv_file # NoFile
    /\ Len(tail_views) = Len(bus_stops)
    /\ Logged(actual_times) = 1..Len(bus_stops)

\* The travel text the claim C4 requires for stop i: the placeholder when the
\* stop is not logged or no stop before it is, else the time since the
\* logged stop of greatest sequence before it.
C4_Expected(at, i, placeholder) ==
    IF i \notin Logged(at) \/ LoggedBefore(at, i) = {}
    THEN placeholder
    ELSE TravelStr(at[bus_stops[i].sequence],
                   at[bus_stops[Greatest(LoggedBefore(at, i))].sequence])

\* C4: in every printed view and in the export, the travel segment of a
\* logged stop is the time since the logged stop of greatest sequence before
\* it, unlogged stops skipped; for the first logged stop and for every
\* unlogged stop it is the placeholder ("-" in the view, empty in the
\* export), which is not a zero duration.
C4_TravelFromNearestLogged ==
    /\ \A v \in 1..Len(tail_views) : \A i \in 1..Len(bus_stops) :
          /\ tail_views[v][i].travel_str = C4_Expected(actual_times, i, "-")
          /\ (i \notin Logged(actual_times) \/ LoggedBefore(actual_times, i) = {})
                => tail_views[v][i].travel_str # "0m 0s"
    /\ csv_file # NoFile => \A i \in 1..Len(bus_stops) :
          csv_file[i + 1][7] = C4_Expected(actual_times, i, "")

\* Stop 2 is skipped between two logged stops; view and export both made.
C4_Witness ==
    /\ Len(tail_views) >= 1
    /\ csv_file # NoFile
    /\ Len(bus_stops) >= 3
    /\ Logged(actual_times) \cap {1, 2, 3} = {1, 3}
    /\ tail_views[1][3].travel_str # "-"

\* C5: for every logged stop, minutes*60 + seconds = abs(total_seconds) with
\* 0 <= seconds < 60 and minutes >= 0; total_seconds is the difference
\* truncated toward zero to whole seconds; the sign is "-" exactly when
\* total_seconds < 0, and the category is late, early or on-time as
\* total_seconds is positive, negative or zero; when the difference is a
\* whole number of seconds these are the sign and category of the
\* difference itself.
C5_DeviationSignAndSplit ==
    \A i \in Logged(actual_times) :
        LET s == bus_stops[i]
            d == format_deviation(actual_times[s.sequence], target_time(s))
            t == d.total_seconds
            mag == IF t >= 0 THEN t ELSE -t
            cat == color_for_deviation(t)
        IN  /\ d.minutes * 60 + d.seconds = mag
            /\ d.seconds >= 0 /\ d.seconds < 60 /\ d.minutes >= 0
            /\ IF Delta(i) >= 0
               THEN t * TicksPerSec <= Delta(i) /\ Delta(i) < (t + 1) * TicksPerSec
               ELSE (t - 1) * TicksPerSec < Delta(i) /\ Delta(i) <= t * TicksPerSec
            /\ (d.sign = "-") <=> (t < 0)
            /\ d.sign \in {"+", "-"}
            /\ (cat = RED) <=> (t > 0)
            /\ (cat = GREEN) <=> (t < 0)
            /\ (cat = YELLOW) <=> (t = 0)
            /\ Delta(i) % TicksPerSec = 0 =>
                  /\ t * TicksPerSec = Delta(i)
                  /\ Delta(i) > 0 => d.sign = "+" /\ cat = RED
                  /\ Delta(i) < 0 => d.sign = "-" /\ cat = GREEN
                  /\ Delta(i) = 0 => cat = YELLOW

\* Logged stops late, early and on time, each by a whole number of seconds.
C5_Witness ==
    /\ \E i \in Logged(actual_times) :
          Delta(i) > 0 /\ Delta(i) % TicksPerSec = 0
    /\ \E i \in Logged(actual_times) :
          Delta(i) < 0 /\ Delta(i) % TicksPerSec = 0
    /\ \E i \in Logged(actual_times) : Delta(i) = 0

\* The rows of stop i in the printed views that show it logged, and in the
\* export, carry the deviation text txt (in the view, in the on-time colour).
C6_ZeroRowsShow(i, txt) ==
    /\ \A v \in 1..Len(tail_views) :
          tail_views[v][i].actual_str # "-" =>
              tail_views[v][i].deviation_colored = YELLOW \o txt \o RESET
    /\ csv_file # NoFile => csv_file[i + 1][5] = txt /\ csv_file[i + 1][6] = "0"

\* C6 as stated: an arrival exactly at the scheduled time is shown as
\* "0m 0s", without a sign, on-time, in the view and in the export.
C6_ZeroHasNoSign ==
    \A i \in Logged(actual_times) : Delta(i) = 0 => C6_ZeroRowsShow(i, "0m 0s")

\* C6 amended: an arrival exactly at the scheduled time is shown as
\* "+0m 0s", on-time, in the view and in the export.
C6_ZeroIsPlusZero ==
    \A i \in Logged(actual_times) : Delta(i) = 0 => C6_ZeroRowsShow(i, "+0m 0s")

C6_Witness ==
    /\ pc = "done"
    /\ csv_file # NoFile
    /\ \E i \in Logged(actual_times) :
          Delta(i) = 0 /\ tail_views[Len(tail_views)][i].actual_str # "-"

Complete ==
    /\ pc = "done"
    /\ DOMAIN actual_times = Seqs
    /\ Len(tail_views) = Len(bus_stops)
    /\ csv_file # NoFile

\* Where the run stands, stop by stop.
C8_Order ==
    /\ pc \in {"input", "aborted"} =>
          /\ Logged(actual_times) = 1..(idx - 1)
          /\ Len(tail_views) = idx - 1
          /\ idx > 1 => tail_views[idx - 1] = TailView(actual_times)
    /\ pc = "view" =>
          /\ Logged(actual_times) = 1..idx
          /\ Len(tail_views) = idx - 1
    /\ pc \in {"export", "done"} =>
          /\ idx = Len(bus_stops)
          /\ Logged(actual_times) = 1..Len(bus_stops)
          /\ Len(tail_views) = Len(bus_stops)
          /\ tail_views[Len(tail_views)] = TailView(actual_times)
    /\ csv_file # NoFile => pc = "done"

\* C8: unless the run is interrupted at a prompt, it eventually is complete,
\* with every stop logged; at each prompt the view of every arrival logged
\* so far has been printed; the file is written once, after the last
\* arrival and its view, and never again.
C8_RunCompletes ==
    /\ []C8_Order
    /\ [][csv_file' # csv_file =>
            /\ pc = "export"
            /\ csv_file = NoFile
            /\ csv_file' = CsvFile(actual_times)
            /\ pc' = "done"]_vars
    /\ <>(pc = "aborted" \/ Complete)
    /\ [](pc = "done" => Complete)

C8_Witness == Complete

\* C9: for every printed view and the export of the same record, stop by
\* stop: both show the stop as logged or both as not logged; for a logged
\* stop the view's deviation is the export's deviation text inside a colour
\* marker, and the travel text is the same or the placeholder in both; for
\* a stop not logged both show placeholders.
C9_ViewAndExportAgree ==
    csv_file # NoFile =>
        \A v \in 1..Len(tail_views) : \A i \in 1..Len(bus_stops) :
            LET r == tail_views[v][i]
                c == csv_file[i + 1]
            IN  /\ (r.actual_str = "-") <=> (c[4] = "")
                /\ (r.actual_str # "-") <=> (i \in Logged(actual_times))
                /\ IF r.actual_str = "-"
                   THEN r.deviation_colored = "-" /\ c[5] = "" /\ c[6] = ""
                   ELSE \E col \in Colors :
                           r.deviation_colored = col \o c[5] \o RESET
                /\ (r.travel_str = "-") <=> (c[7] = "")
                /\ r.travel_str # "-" => r.travel_str = c[7]

\* A view and the export of a record with an early stop and a travel segment.
C9_Witness ==
    /\ csv_file # NoFile
    /\ Len(tail_views) >= 1
    /\ \E i \in Logged(actual_times) :
          /\ Delta(i) <= -TicksPerSec
          /\ tail_views[1][i].travel_str # "-"
    /\ Logged(actual_times) # 1..Len(bus_stops)

\* C10: the logged stops are a prefix of the schedule, and in every printed
\* view the travel segment of a logged stop N > 1 is the time since stop N-1.
C10_LoggedIsPrefix ==
    /\ \E k \in 0..Len(bus_stops) : Logged(actual_times) = 1..k
    /\ DOMAIN actual_times \subseteq Seqs
    /\ \A v \in 1..Len(tail_views) : \A i \in 2..Len(bus_stops) :
          tail_views[v][i].actual_str # "-" =>
              /\ i - 1 \in Logged(actual_times)
              /\ tail_views[v][i].travel_str =
                    TravelStr(actual_times[bus_stops[i].sequence],
                              actual_times[bus_stops[i - 1].sequence])

C10_Witness ==
    /\ Len(tail_views) >= 3
    /\ tail_views[3][3].travel_str # "-"
    /\ Cardinality(Logged(actual_times)) >= 3

====
